---- MODULE Spec2Model ----
(***************************************************************************)
(* LSB steganography tool (slham/steg, main.go).                           *)
(*                                                                         *)
(* An image is modelled by its bounds rectangle and, for every point of   *)
(* the rectangle, the four 16-bit values that At(x, y).RGBA() returns.     *)
(* The program only ever looks at uint8(v >> 8) of those values.           *)
(*                                                                         *)
(* Four specifications share the variables and the codec actions:          *)
(*   Spec         main(): command line, decodeImage, then the decode or    *)
(*                the encode branch;                                       *)
(*   SpecExtract  decodeSecretMessage on an arbitrary image;               *)
(*   SpecCodec    embedSecretMessage on an arbitrary image and message,    *)
(*                followed by decodeSecretMessage on the image it filled;  *)
(*   SpecCanFit   canFitMessage on an arbitrary rectangle and message.     *)
(***************************************************************************)
EXTENDS Integers, Sequences, FiniteSets, TLC

\* ------------------------------------------------------------------ bounds
MaxDim == 5
MaxPixels == 10
MaxOrigin == 1
MaxLen == 2
MaxFitLen == 4

\* --------------------------------------------------------------- constants
hiddenBitMask == 1

\* []byte{0, 0, 0, 0, 0, 0, 0, 0}
Terminator == <<0, 0, 0, 0, 0, 0, 0, 0>>

\* ---------------------------------------------------------------- integers
\* v & hiddenBitMask (hiddenBitMask = 2^k - 1)
AndMask(v) == v % (hiddenBitMask + 1)

\* v &^ hiddenBitMask
AndNotMask(v) == v - (v % (hiddenBitMask + 1))

\* uint8(v >> 8) of a 16-bit colour value
Channel8(v) == (v \div 256) % 256

\* ------------------------------------------------------------------ images
Dx(r) == r.Max.X - r.Min.X
Dy(r) == r.Max.Y - r.Min.Y

Rectangles(origins) ==
    { r \in { [Min |-> [X |-> ox, Y |-> oy], Max |-> [X |-> ox + w, Y |-> oy + h]] :
                ox \in origins, oy \in origins, w \in 0..MaxDim, h \in 0..MaxDim } :
        Dx(r) * Dy(r) <= MaxPixels }

Points(r) == { <<px, py>> : px \in r.Min.X..(r.Max.X - 1), py \in r.Min.Y..(r.Max.Y - 1) }

\* Two source pixels, as At().RGBA() reports them: red LSB 0 and red LSB 1,
\* with low bytes that are not copies of the high bytes.
Palette ==
    { [r |-> 51400, g |-> 4660,  b |-> 255,   a |-> 65535],
      [r |-> 51711, g |-> 43981, b |-> 32768, a |-> 53456] }

Images(origins) ==
    UNION { { [bounds |-> r, pix |-> p] : p \in [Points(r) -> Palette] } :
            r \in Rectangles(origins) }

\* image.NewRGBA(r): every channel of every pixel is zero
NewRGBA(r) == [bounds |-> r, pix |-> [p \in Points(r) |-> [r |-> 0, g |-> 0, b |-> 0, a |-> 0]]]

\* (*image.RGBA).Set(x, y, c) with c a color.RGBA: the four 8-bit channels are
\* stored; At(x, y).RGBA() then reports each as c | c << 8.
Set(im, px, py, c) ==
    IF <<px, py>> \in Points(im.bounds)
    THEN [im EXCEPT !.pix[<<px, py>>] =
            [r |-> c.R * 257, g |-> c.G * 257, b |-> c.B * 257, a |-> c.A * 257]]
    ELSE im

NoImage == NewRGBA([Min |-> [X |-> 0, Y |-> 0], Max |-> [X |-> 0, Y |-> 0]])

\* ------------------------------------------------------------------- state
VARIABLES
    pc,            \* position in the program
    args,          \* the parsed flags
    img,           \* main: the decoded source image; embed: originalImg
    message,       \* the secret message (sequence of bytes)
    fits,          \* sequence holding the result of canFitMessage once it returned
    encodedImg,    \* the image created by image.NewRGBA and filled by embed
    decodeImg,     \* the image passed to decodeSecretMessage
    x, y,          \* loop variables of the codec function that is running
    messageBytes,  \* decodeSecretMessage's accumulator
    ret,           \* the string returned by decodeSecretMessage
    reads,         \* points decodeSecretMessage has read with At, in order
    calls,         \* the codec functions called so far
    outFile        \* sequence holding the file written by encodeImage, if any

vars == <<pc, args, img, message, fits, encodedImg, decodeImg, x, y,
          messageBytes, ret, reads, calls, outFile>>

NoArgs == [encode |-> FALSE, decode |-> FALSE, imagePath |-> <<>>, secret |-> <<>>,
           secretPath |-> <<>>]

\* ------------------------------------------------- decodeSecretMessage
\* len(messageBytes) >= 8 && bytes.Equal(messageBytes[len(messageBytes)-8:], 8 zeros)
TerminatorSeen(mb) ==
    /\ Len(mb) >= 8
    /\ SubSeq(mb, Len(mb) - 7, Len(mb)) = Terminator

\* encodedRGBAColor.R & hiddenBitMask, R being uint8(r >> 8)
RedBit(im, px, py) == AndMask(Channel8(im.pix[<<px, py>>].r))

\* entry: bounds, messageBytes := make([]byte, 0), y := bounds.Min.Y
BeginDecode(im) ==
    /\ decodeImg' = im
    /\ messageBytes' = <<>>
    /\ reads' = <<>>
    /\ calls' = calls \cup {"decodeSecretMessage"}
    /\ y' = im.bounds.Min.Y
    /\ x' = im.bounds.Min.X
    /\ pc' = IF im.bounds.Min.Y < im.bounds.Max.Y THEN "decode_col" ELSE "decode_strip"

\* one iteration of the column loop: read the pixel, append its bit, break
\* when the last eight entries are zero
DecodePixel ==
    /\ pc = "decode_col"
    /\ x < decodeImg.bounds.Max.X
    /\ LET bit == RedBit(decodeImg, x, y)
           mb  == Append(messageBytes, bit)
       IN /\ messageBytes' = mb
          /\ reads' = Append(reads, <<x, y>>)
          /\ IF TerminatorSeen(mb)
             THEN pc' = "decode_rowend" /\ x' = x
             ELSE pc' = "decode_col" /\ x' = x + 1
    /\ UNCHANGED <<args, img, message, fits, encodedImg, decodeImg, y, ret, calls, outFile>>

\* the column loop's condition fails
DecodeColumnsDone ==
    /\ pc = "decode_col"
    /\ x >= decodeImg.bounds.Max.X
    /\ pc' = "decode_rowend"
    /\ UNCHANGED <<args, img, message, fits, encodedImg, decodeImg, x, y,
                   messageBytes, ret, reads, calls, outFile>>

\* a row loop that never leaves early
RowBreak_Never(mb) == FALSE

\* does the row loop leave after the column loop?
RowBreak(mb) == TerminatorSeen(mb)

\* after the column loop: break out of the row loop on a terminator,
\* otherwise y++ and test the row loop's condition
DecodeRowEnd ==
    /\ pc = "decode_rowend"
    /\ IF RowBreak(messageBytes)
       THEN pc' = "decode_strip" /\ UNCHANGED <<x, y>>
       ELSE /\ y' = y + 1
            /\ x' = decodeImg.bounds.Min.X
            /\ pc' = IF y + 1 < decodeImg.bounds.Max.Y THEN "decode_col" ELSE "decode_strip"
    /\ UNCHANGED <<args, img, message, fits, encodedImg, decodeImg,
                   messageBytes, ret, reads, calls, outFile>>

\* a slice expression that removes seven entries
StripBound_Seven(mb) == Len(mb) - 7

\* the upper bound of the slice expression messageBytes[:len(messageBytes)-8]
StripBound(mb) == Len(mb) - 8

\* messageBytes = messageBytes[:len(messageBytes)-8]: a negative bound panics
\* (slice bounds out of range); message := string(messageBytes) is returned
DecodeStrip ==
    /\ pc = "decode_strip"
    /\ IF StripBound(messageBytes) < 0
       THEN pc' = "panic" /\ UNCHANGED <<messageBytes, ret>>
       ELSE /\ messageBytes' = SubSeq(messageBytes, 1, StripBound(messageBytes))
            /\ ret' = messageBytes'
            /\ pc' = "decoded"
    /\ UNCHANGED <<args, img, message, fits, encodedImg, decodeImg, x, y,
                   reads, calls, outFile>>

\* ------------------------------------------------------------- SpecExtract
AllOrigins == 0..MaxOrigin

InitExtract ==
    /\ pc = "call_decode"
    /\ args = NoArgs
    /\ img \in Images(AllOrigins)
    /\ message = <<>>
    /\ fits = <<>>
    /\ encodedImg = NoImage
    /\ decodeImg = NoImage
    /\ x = 0
    /\ y = 0
    /\ messageBytes = <<>>
    /\ ret = <<>>
    /\ reads = <<>>
    /\ calls = {}
    /\ outFile = <<>>

CallDecode ==
    /\ pc = "call_decode"
    /\ BeginDecode(img)
    /\ UNCHANGED <<args, img, message, fits, encodedImg, ret, outFile>>

NextExtract == CallDecode \/ DecodePixel \/ DecodeColumnsDone \/ DecodeRowEnd \/ DecodeStrip

SpecExtract == InitExtract /\ [][NextExtract]_vars

\* ------------------------------------------------------- embedSecretMessage
\* a padding bit of 1 once the message is empty
getNextMessageBit_OneWhenEmpty(m) ==
    IF Len(m) > 0 THEN AndMask(m[1] % 256) ELSE 1

\* The parameter is a copy of the caller's string: the assignment
\* message = message[1:] shortens the copy only, and the function returns
\* nothing but the bit. uint8(char) & hiddenBitMask for a non-empty message.
getNextMessageBit(m) ==
    IF Len(m) > 0 THEN AndMask(m[1] % 256) ELSE 0

\* originalRGBAColor: the four values of RGBA(), each as uint8(v >> 8)
OriginalColor(im, px, py) ==
    LET c == im.pix[<<px, py>>]
    IN [R |-> Channel8(c.r), G |-> Channel8(c.g), B |-> Channel8(c.b), A |-> Channel8(c.a)]

\* a red channel that keeps the hidden bit only
EncodedColor_DropsHighBits(orig, bit) ==
    [orig EXCEPT !.R = AndMask(bit)]

\* encodedRGBAColor := originalRGBAColor, then
\* R = (R &^ hiddenBitMask) | (bit & hiddenBitMask)
EncodedColor(orig, bit) ==
    [orig EXCEPT !.R = AndNotMask(orig.R) + AndMask(bit)]

\* entry: bounds := originalImg.Bounds(), y := bounds.Min.Y
BeginEmbed ==
    /\ calls' = calls \cup {"embedSecretMessage"}
    /\ y' = img.bounds.Min.Y
    /\ x' = img.bounds.Min.X
    /\ pc' = IF img.bounds.Min.Y < img.bounds.Max.Y THEN "embed_col" ELSE "embedded"

\* one iteration of the column loop
EmbedPixel ==
    /\ pc = "embed_col"
    /\ x < img.bounds.Max.X
    /\ LET bit == getNextMessageBit(message)
       IN encodedImg' = Set(encodedImg, x, y, EncodedColor(OriginalColor(img, x, y), bit))
    /\ x' = x + 1
    /\ UNCHANGED <<pc, args, img, message, fits, decodeImg, y,
                   messageBytes, ret, reads, calls, outFile>>

\* the column loop's condition fails: y++ and the row loop's condition
EmbedRowEnd ==
    /\ pc = "embed_col"
    /\ x >= img.bounds.Max.X
    /\ y' = y + 1
    /\ x' = img.bounds.Min.X
    /\ pc' = IF y + 1 < img.bounds.Max.Y THEN "embed_col" ELSE "embedded"
    /\ UNCHANGED <<args, img, message, fits, encodedImg, decodeImg,
                   messageBytes, ret, reads, calls, outFile>>

\* --------------------------------------------------------------- SpecCodec
\* bytes: NUL, one with LSB 1, one non-zero with LSB 0
Bytes == {0, 1, 2}

Payloads == UNION { [1..n -> Bytes] : n \in 0..MaxLen }

\* source images laid out as a checkerboard of two palette pixels
Checkerboards(origins) ==
    UNION { { [bounds |-> r, pix |-> [p \in Points(r) |-> pat[(p[1] + p[2]) % 2]]] :
              pat \in [0..1 -> Palette] } : r \in Rectangles(origins) }

InitCodec ==
    /\ pc = "call_embed"
    /\ args = NoArgs
    /\ img \in Checkerboards(AllOrigins)
    /\ message \in Payloads
    /\ fits = <<>>
    /\ encodedImg = NoImage
    /\ decodeImg = NoImage
    /\ x = 0
    /\ y = 0
    /\ messageBytes = <<>>
    /\ ret = <<>>
    /\ reads = <<>>
    /\ calls = {}
    /\ outFile = <<>>

\* encodedImg := image.NewRGBA(img.Bounds()); embedSecretMessage(img, encodedImg, message)
CallEmbed ==
    /\ pc = "call_embed"
    /\ encodedImg' = NewRGBA(img.bounds)
    /\ BeginEmbed
    /\ UNCHANGED <<args, img, message, fits, decodeImg, messageBytes, ret, reads, outFile>>

\* decodeSecretMessage(encodedImg) on the image embed has filled
CallDecodeEncoded ==
    /\ pc = "embedded"
    /\ BeginDecode(encodedImg)
    /\ UNCHANGED <<args, img, message, fits, encodedImg, ret, outFile>>

NextCodec ==
    \/ CallEmbed
    \/ EmbedPixel
    \/ EmbedRowEnd
    \/ CallDecodeEncoded
    \/ DecodePixel
    \/ DecodeColumnsDone
    \/ DecodeRowEnd
    \/ DecodeStrip

SpecCodec == InitCodec /\ [][NextCodec]_vars

\* ----------------------------------------------------------- canFitMessage
\* maxMessageSize := img.Bounds().Max.X * img.Bounds().Max.Y * 3 / 8
\* return len(message) < maxMessageSize
canFitMessage(im, m) ==
    Len(m) < (im.bounds.Max.X * im.bounds.Max.Y * 3) \div 8

\* -------------------------------------------------------------- SpecCanFit
FitMessages == { [i \in 1..n |-> 1] : n \in 0..MaxFitLen }

InitCanFit ==
    /\ pc = "call_canfit"
    /\ args = NoArgs
    /\ img \in Checkerboards(AllOrigins)
    /\ message \in FitMessages
    /\ fits = <<>>
    /\ encodedImg = NoImage
    /\ decodeImg = NoImage
    /\ x = 0
    /\ y = 0
    /\ messageBytes = <<>>
    /\ ret = <<>>
    /\ reads = <<>>
    /\ calls = {}
    /\ outFile = <<>>

CallCanFit ==
    /\ pc = "call_canfit"
    /\ fits' = <<canFitMessage(img, message)>>
    /\ pc' = "returned"
    /\ UNCHANGED <<args, img, message, encodedImg, decodeImg, x, y,
                   messageBytes, ret, reads, calls, outFile>>

NextCanFit == CallCanFit

SpecCanFit == InitCanFit /\ [][NextCanFit]_vars

\* -------------------------------------------------------------------- main
\* Strings of the command line are sequences of characters.
Dot == <<".">>
jpg == <<"j", "p", "g">>
png == <<"p", "n", "g">>
gif == <<"g", "i", "f">>

validExtensions == {jpg, png}

\* strings.Split(s, ".")
RECURSIVE Split(_)
Split(s) ==
    IF \E i \in 1..Len(s) : s[i] = "."
    THEN LET i == CHOOSE j \in 1..Len(s) : s[j] = "." /\ \A k \in 1..(j - 1) : s[k] # "."
         IN <<SubSeq(s, 1, i - 1)>> \o Split(SubSeq(s, i + 1, Len(s)))
    ELSE <<s>>

\* fmt.Sprintf("%s.%s", name, extension)
Sprintf(name, extension) == name \o Dot \o extension

ImagePaths ==
    { <<>>, <<"a">>, <<"a">> \o Dot \o gif, <<"a">> \o Dot \o jpg, <<"a">> \o Dot \o png,
      <<"a">> \o Dot \o <<"b">> \o Dot \o png }

\* values of -secret: the empty default and messages of 0x01 bytes
SecretArgs == { [i \in 1..n |-> 1] : n \in 0..MaxLen }

\* values of -secret-path: the empty default and one path
SecretPaths == { <<>>, <<"s">> }

AllArgs ==
    [encode : BOOLEAN, decode : BOOLEAN, imagePath : ImagePaths, secret : SecretArgs,
     secretPath : SecretPaths]

\* images the decoders return: the origin is (0, 0)
DecodedImages == Checkerboards({0})

Init ==
    /\ pc = "main"
    /\ args \in AllArgs
    /\ img = NoImage
    /\ message = <<>>
    /\ fits = <<>>
    /\ encodedImg = NoImage
    /\ decodeImg = NoImage
    /\ x = 0
    /\ y = 0
    /\ messageBytes = <<>>
    /\ ret = <<>>
    /\ reads = <<>>
    /\ calls = {}
    /\ outFile = <<>>

\* a check that lets -encode together with -decode through
ModeInvalid_AllowsBoth(a) == ~a.encode /\ ~a.decode

\* !encode && !decode || encode && decode
ModeInvalid(a) == (~a.encode /\ ~a.decode) \/ (a.encode /\ a.decode)

\* secret == "" && secretPath == "" || secret != "" && secretPath != ""
SecretInvalid(a) ==
    \/ a.secret = <<>> /\ a.secretPath = <<>>
    \/ a.secret # <<>> /\ a.secretPath # <<>>

\* the checks of the flags, each returning from main when it fails
MainCheckFlags ==
    /\ pc = "main"
    /\ LET parts == Split(args.imagePath)
       IN pc' = IF ModeInvalid(args) THEN "exit"
                ELSE IF args.imagePath = <<>> THEN "exit"
                ELSE IF Len(parts) # 2 THEN "exit"
                ELSE IF parts[2] \notin validExtensions THEN "exit"
                ELSE "decodeImage"
    /\ UNCHANGED <<args, img, message, fits, encodedImg, decodeImg, x, y,
                   messageBytes, ret, reads, calls, outFile>>

\* decodeImage returns an error: the file cannot be opened or decoded
MainDecodeImageFails ==
    /\ pc = "decodeImage"
    /\ pc' = "exit"
    /\ UNCHANGED <<args, img, message, fits, encodedImg, decodeImg, x, y,
                   messageBytes, ret, reads, calls, outFile>>

\* decodeImage opens Sprintf(imageName, imageExtension) and returns the image
MainDecodeImage ==
    /\ pc = "decodeImage"
    /\ Sprintf(Split(args.imagePath)[1], Split(args.imagePath)[2]) = args.imagePath
    /\ \E im \in DecodedImages : img' = im
    /\ pc' = "image"
    /\ UNCHANGED <<args, message, fits, encodedImg, decodeImg, x, y,
                   messageBytes, ret, reads, calls, outFile>>

\* if decode { message := decodeSecretMessage(img)
MainDecode ==
    /\ pc = "image"
    /\ args.decode
    /\ BeginDecode(img)
    /\ UNCHANGED <<args, img, message, fits, encodedImg, ret, outFile>>

\* ... the message is logged; return }
MainDecodeReturn ==
    /\ pc = "decoded"
    /\ pc' = "done"
    /\ UNCHANGED <<args, img, message, fits, encodedImg, decodeImg, x, y,
                   messageBytes, ret, reads, calls, outFile>>

\* if encode { the check of -secret and -secret-path; message = secret
MainSecretFlags ==
    /\ pc = "image"
    /\ ~args.decode
    /\ args.encode
    /\ IF SecretInvalid(args)
       THEN pc' = "exit" /\ UNCHANGED message
       ELSE IF args.secret # <<>>
       THEN pc' = "canFit" /\ message' = args.secret
       ELSE pc' = "openSecret" /\ UNCHANGED message
    /\ UNCHANGED <<args, img, fits, encodedImg, decodeImg, x, y,
                   messageBytes, ret, reads, calls, outFile>>

\* os.Open(secretPath) returns an error
MainOpenSecretFails ==
    /\ pc = "openSecret"
    /\ pc' = "exit"
    /\ UNCHANGED <<args, img, message, fits, encodedImg, decodeImg, x, y,
                   messageBytes, ret, reads, calls, outFile>>

\* len(buffer), buffer := make([]byte, 1024)
BufferSize == 1024

\* readSecretMessage: file.Read fills the buffer with the next n <= 1024
\* bytes, which are appended, until Read returns an error at the end of
\* the file; string(messageBytes) is returned
RECURSIVE readSecretMessage(_)
readSecretMessage(contents) ==
    IF contents = <<>>
    THEN <<>>
    ELSE LET n == IF Len(contents) < BufferSize THEN Len(contents) ELSE BufferSize
         IN SubSeq(contents, 1, n) \o readSecretMessage(SubSeq(contents, n + 1, Len(contents)))

\* message = readSecretMessage(secretFile)
MainReadSecret ==
    /\ pc = "openSecret"
    /\ \E contents \in Payloads : message' = readSecretMessage(contents)
    /\ pc' = "canFit"
    /\ UNCHANGED <<args, img, fits, encodedImg, decodeImg, x, y,
                   messageBytes, ret, reads, calls, outFile>>

\* if !canFitMessage(img, message) { return }
\* encodedImg := image.NewRGBA(img.Bounds()); embedSecretMessage(img, encodedImg, message)
MainCanFit ==
    /\ pc = "canFit"
    /\ fits' = <<canFitMessage(img, message)>>
    /\ IF ~canFitMessage(img, message)
       THEN pc' = "exit" /\ UNCHANGED <<encodedImg, x, y, calls>>
       ELSE encodedImg' = NewRGBA(img.bounds) /\ BeginEmbed
    /\ UNCHANGED <<args, img, message, decodeImg, messageBytes, ret, reads, outFile>>

\* the image main passes to encodeImage("encoded_image", imageExtension, ...)
EncodeArgument == img

\* encodeImage: os.Create(path) returns an error, no file is created
MainEncodeImageCreateFails ==
    /\ pc = "embedded"
    /\ pc' = "exit"
    /\ UNCHANGED <<args, img, message, fits, encodedImg, decodeImg, x, y,
                   messageBytes, ret, reads, calls, outFile>>

\* encodeImage: the file is created and the image is handed to jpeg.Encode
\* or png.Encode, which may return an error
MainEncodeImage ==
    /\ pc = "embedded"
    /\ \E err \in BOOLEAN :
         /\ outFile' = <<[path |-> Sprintf(<<"encoded_image">>, Split(args.imagePath)[2]),
                          image |-> EncodeArgument,
                          err |-> err]>>
         /\ pc' = IF err THEN "exit" ELSE "done"
    /\ UNCHANGED <<args, img, message, fits, encodedImg, decodeImg, x, y,
                   messageBytes, ret, reads, calls>>

Next ==
    \/ MainCheckFlags
    \/ MainDecodeImageFails
    \/ MainDecodeImage
    \/ MainDecode
    \/ DecodePixel
    \/ DecodeColumnsDone
    \/ DecodeRowEnd
    \/ DecodeStrip
    \/ MainDecodeReturn
    \/ MainSecretFlags
    \/ MainOpenSecretFails
    \/ MainReadSecret
    \/ MainCanFit
    \/ EmbedPixel
    \/ EmbedRowEnd
    \/ MainEncodeImageCreateFails
    \/ MainEncodeImage

Spec == Init /\ [][Next]_vars

\* ================================================================== claims
\* Definitions used to state the claims; none of them is used by an action.

\* number of pixels of a rectangle
Area(r) == Dx(r) * Dy(r)

\* the k-th point visited (k from 0) by a row-major scan: rows top to
\* bottom, columns left to right
ScanPoint(r, k) == <<r.Min.X + (k % Dx(r)), r.Min.Y + (k \div Dx(r))>>

\* the red LSBs of an image in row-major order
ScanLSB(im) ==
    [k \in 1..Area(im.bounds) |-> Channel8(im.pix[ScanPoint(im.bounds, k - 1)].r) % 2]

\* s[e-7..e] is a run of eight zeros
ZeroRunEndsAt(s, e) == e >= 8 /\ e <= Len(s) /\ \A i \in (e - 7)..e : s[i] = 0

HasZeroRun(s) == \E e \in 8..Len(s) : ZeroRunEndsAt(s, e)

\* the index of the last element of the first run of eight zeros
FirstZeroRunEnd(s) ==
    CHOOSE e \in 8..Len(s) : ZeroRunEndsAt(s, e) /\ \A f \in 8..(e - 1) : ~ZeroRunEndsAt(s, f)

\* the payload as the sequence of one-bit symbols the codec takes from it
Symbols(m) == [i \in 1..Len(m) |-> m[i] % 2]

\* c & 0xFE
HighSeven(c) == (c \div 2) * 2

\* decodeSecretMessage has returned or panicked
DecodeEnded == pc \in {"decoded", "panic"}

\* embedSecretMessage has returned
EmbedReturned == "embedSecretMessage" \in calls /\ pc # "embed_col"

EndsWith(s, suffix) ==
    /\ Len(s) >= Len(suffix)
    /\ SubSeq(s, Len(s) - Len(suffix) + 1, Len(s)) = suffix

\* the command lines the claim C8 calls malformed
Malformed(a) ==
    \/ ~a.encode /\ ~a.decode
    \/ a.encode /\ a.decode
    \/ a.imagePath = <<>>
    \/ ~(EndsWith(a.imagePath, Dot \o jpg) \/ EndsWith(a.imagePath, Dot \o png))
    \/ /\ a.encode
       /\ \/ a.secret = <<>> /\ a.secretPath = <<>>
          \/ a.secret # <<>> /\ a.secretPath # <<>>

\* the two images have the same bounds and the same 8-bit channels everywhere
SameChannels(a, b) ==
    /\ a.bounds = b.bounds
    /\ \A p \in Points(a.bounds) :
         /\ Channel8(a.pix[p].r) = Channel8(b.pix[p].r)
         /\ Channel8(a.pix[p].g) = Channel8(b.pix[p].g)
         /\ Channel8(a.pix[p].b) = Channel8(b.pix[p].b)
         /\ Channel8(a.pix[p].a) = Channel8(b.pix[p].a)

\* C1 (SpecCodec): round trip. For every image of at least 8 pixels and every
\* payload without a zero-valued symbol, decodeSecretMessage on the image that
\* embedSecretMessage filled returns the payload's symbols, in order. Stated
\* where the claim asks least: for the payloads that leave room for the eight
\* terminator pixels (len + 8 <= W*H).
C1_RoundTrip ==
    ( /\ DecodeEnded
      /\ Area(img.bounds) >= 8
      /\ Len(message) + 8 <= Area(img.bounds)
      /\ \A i \in 1..Len(message) : Symbols(message)[i] # 0 )
    => (pc = "decoded" /\ ret = Symbols(message))

\* C2 (SpecCodec): embed consumes one payload byte per pixel in row-major
\* order: once embedSecretMessage has returned, the k-th pixel visited (k from
\* 0) has red LSB payload[k] & 1 when k < len(payload) and red LSB 0 otherwise.
C2_OneBytePerPixel ==
    EmbedReturned =>
        \A k \in 0..(Area(img.bounds) - 1) :
            ScanLSB(encodedImg)[k + 1] =
                (IF k < Len(message) THEN message[k + 1] % 2 ELSE 0)

\* C3 (Spec): on the encode path the image handed to the encoder and written
\* to encoded_image.<ext> is the new image that embed filled, not the source
\* image.
C3_EncoderGetsEmbeddedImage ==
    outFile # <<>> => SameChannels(outFile[1].image, encodedImg)

\* C4 (SpecCanFit): canFitMessage returns true exactly when
\* L < (W*H*3)/8 (truncating), W and H being max minus min of the bounds on
\* each axis, whatever the origin of the bounds.
C4_CanFitIffBelowCapacity ==
    pc = "returned" =>
        (fits[1] <=> (Len(message) < (Dx(img.bounds) * Dy(img.bounds) * 3) \div 8))

\* C5 (SpecCodec): embed changes nothing but the red LSB: once
\* embedSecretMessage has returned, the new image has the bounds of the
\* source, and for every pixel its green, blue and alpha channels equal the
\* source's and its red channel & 0xFE equals the source's red & 0xFE.
C5_OnlyRedLSBChanges ==
    EmbedReturned =>
        /\ encodedImg.bounds = img.bounds
        /\ \A p \in Points(img.bounds) :
             /\ Channel8(encodedImg.pix[p].g) = Channel8(img.pix[p].g)
             /\ Channel8(encodedImg.pix[p].b) = Channel8(img.pix[p].b)
             /\ Channel8(encodedImg.pix[p].a) = Channel8(img.pix[p].a)
             /\ HighSeven(Channel8(encodedImg.pix[p].r)) = HighSeven(Channel8(img.pix[p].r))

\* C5 witness: embed has returned, it flipped the red LSB of one pixel and
\* kept the red LSB of another
C5_Witness ==
    /\ EmbedReturned
    /\ \E p \in Points(img.bounds) :
         Channel8(encodedImg.pix[p].r) # Channel8(img.pix[p].r)
    /\ \E p \in Points(img.bounds) :
         Channel8(encodedImg.pix[p].r) = Channel8(img.pix[p].r)

\* C6 (SpecExtract): on an image of fewer than 8 pixels (a zero-area image
\* included) decodeSecretMessage completes normally and returns the empty
\* sequence.
C6_ShortImageReturnsEmpty ==
    (DecodeEnded /\ Area(decodeImg.bounds) < 8) => (pc = "decoded" /\ ret = <<>>)

\* C7 (SpecCodec): terminator emergence: for every image of at least 8
\* pixels, whatever its red values, embedding the empty payload and decoding
\* the result returns the empty sequence.
C7_EmptyPayloadRoundTrip ==
    (DecodeEnded /\ message = <<>> /\ Area(img.bounds) >= 8)
    => (pc = "decoded" /\ ret = <<>>)

\* C7 witness: the empty payload was embedded into an image of at least 8
\* pixels, some of them with red LSB 1, and decoding returned
C7_Witness ==
    /\ pc = "decoded"
    /\ message = <<>>
    /\ Area(img.bounds) >= 9
    /\ \E k \in 1..Area(img.bounds) : ScanLSB(img)[k] = 1
    /\ decodeImg = encodedImg
    /\ ret = <<>>

\* C8 (Spec): whenever the command line is malformed or canFitMessage returned
\* false, neither codec function is ever called and the output file is never
\* created.
C8_NoCodecWorkOnRejection ==
    (Malformed(args) \/ fits = <<FALSE>>) => (calls = {} /\ outFile = <<>>)

\* C8 witness: main has returned after canFitMessage returned false on a
\* well-formed encode command line
C8_Witness ==
    /\ pc = "exit"
    /\ fits = <<FALSE>>
    /\ ~Malformed(args)
    /\ message # <<>>

\* C9 (SpecExtract): decodeSecretMessage stops at the first terminator and
\* strips exactly it: when the row-major red LSBs hold a run of 8 zeros, the
\* pixels read are a prefix of the scan that never goes beyond the last pixel
\* of the first such run, and the value returned is the LSBs before that run.
C9_StopsAtFirstTerminator ==
    ("decodeSecretMessage" \in calls /\ HasZeroRun(ScanLSB(decodeImg))) =>
        LET s == ScanLSB(decodeImg)
            e == FirstZeroRunEnd(s)
        IN /\ Len(reads) <= e
           /\ \A k \in 1..Len(reads) : reads[k] = ScanPoint(decodeImg.bounds, k - 1)
           /\ pc # "panic"
           /\ pc = "decoded" => (Len(reads) = e /\ ret = SubSeq(s, 1, e - 8))

\* C9 witness: decoding returned a non-empty value and left pixels unread
C9_Witness ==
    /\ pc = "decoded"
    /\ HasZeroRun(ScanLSB(decodeImg))
    /\ ret # <<>>
    /\ Len(reads) < Area(decodeImg.bounds)

====
